---------------------------- MODULE Spec2Model ----------------------------
(***************************************************************************)
(* A model of the NBT editor of src/main.py: the tag tree (nbtlib objects  *)
(* held by reference), the addressing cache (node_map / path_to_id), the   *)
(* current selection, the inventory buttons with the list each one         *)
(* captured, and the handlers apply_changes, add_child, delete_node and    *)
(* _edit_inventory_item.                                                   *)
(*                                                                         *)
(* Tags are objects of a heap, named by their index in the sequence heap;  *)
(* an object is never moved, so an index is the object's identity          *)
(* (Python's "is").  0 stands for None.  What the user types is a text, a  *)
(* sequence of one-character strings, so that parsing and stripping are    *)
(* computed; a name that is typed or shown in the name field is a text     *)
(* whose pieces are blanks and words.                                      *)
(***************************************************************************)
EXTENDS Integers, Sequences, FiniteSets, TLC

VARIABLES
    loaded,        \* nbt_file is not None
    root,          \* nbt_data: the root tag (0: None)
    heap,          \* every tag object created so far
    node_map,      \* the NodeInfo of every tree item, in insertion order
    path_to_id,    \* path -> tree item (index into node_map)
    current_info,  \* the selected NodeInfo, or NoInfo
    current_path,  \* the selected path, or NoPath
    value_editor_mode,  \* "entry" | "text" | "message"
    inv_tabs,      \* the inventory buttons built by build_inventory_tabs
    last,          \* the handler that ran last, its inputs and its outcome
    steps          \* handler invocations so far (bounds the exploration)

vars == <<loaded, root, heap, node_map, path_to_id, current_info, current_path,
          value_editor_mode, inv_tabs, last, steps>>

-----------------------------------------------------------------------------
(* Bounds of the exploration *)

MaxSteps == 2

-----------------------------------------------------------------------------
(* Constants of src/main.py *)

NUMERIC_TYPES == {"Byte", "Short", "Int", "Long"}
FLOAT_TYPES == {"Float", "Double"}
ARRAY_TYPES == {"ByteArray", "IntArray", "LongArray"}

TAG_CLASS_MAP ==
    <<"Byte", "Short", "Int", "Long", "Float", "Double", "String",
      "ByteArray", "IntArray", "LongArray", "Compound", "List">>

TagNames == {TAG_CLASS_MAP[i] : i \in DOMAIN TAG_CLASS_MAP}

INVENTORY_GRID ==
    <<9, 10, 11, 12, 13, 14, 15, 16, 17,
      18, 19, 20, 21, 22, 23, 24, 25, 26,
      27, 28, 29, 30, 31, 32, 33, 34, 35,
      0, 1, 2, 3, 4, 5, 6, 7, 8>>

ENDER_GRID ==
    <<0, 1, 2, 3, 4, 5, 6, 7, 8,
      9, 10, 11, 12, 13, 14, 15, 16, 17,
      18, 19, 20, 21, 22, 23, 24, 25, 26>>

SPECIAL_PLAYER_SLOTS == {103, 102, 101, 100, 150}

-----------------------------------------------------------------------------
(* Texts and the parsers of Python that the code calls *)

Range(s) == {s[i] : i \in DOMAIN s}

DecChars == <<"0", "1", "2", "3", "4", "5", "6", "7", "8", "9">>
HexChars == DecChars \o <<"a", "b", "c", "d", "e", "f">>

DigitVal(c) == (CHOOSE i \in DOMAIN HexChars : HexChars[i] = c) - 1

RECURSIVE LStrip(_, _)
LStrip(s, chars) ==
    IF s # <<>> /\ Head(s) \in chars THEN LStrip(Tail(s), chars) ELSE s

RECURSIVE RStrip(_, _)
RStrip(s, chars) ==
    IF s # <<>> /\ s[Len(s)] \in chars
    THEN RStrip(SubSeq(s, 1, Len(s) - 1), chars)
    ELSE s

\* str.strip(): both ends, every leading and trailing character of the set
StripChars(s, chars) == RStrip(LStrip(s, chars), chars)
Strip(s) == StripChars(s, {" "})

\* the str of a text
RECURSIVE StrOf(_)
StrOf(s) == IF s = <<>> THEN "" ELSE Head(s) \o StrOf(Tail(s))

RECURSIVE DigitsValue(_, _, _)
DigitsValue(s, base, acc) ==
    IF s = <<>> THEN acc
    ELSE DigitsValue(Tail(s), base, acc * base + DigitVal(Head(s)))

Signed(s) == s # <<>> /\ Head(s) \in {"-", "+"}
Unsigned(s) == IF Signed(s) THEN Tail(s) ELSE s
Negate(s, mag) == IF s # <<>> /\ Head(s) = "-" THEN 0 - mag ELSE mag

\* int(text, 0): surrounding whitespace, a sign, then 0x and hex digits, or a
\* decimal literal, which has no leading zero unless it is all zeros.
\* (0o, 0b and digit-separating underscores are outside the modelled alphabet.)
ParseInt0(text) ==
    LET s == Strip(text)
        body == Unsigned(s)
        isHex == /\ Len(body) >= 3
                 /\ body[1] = "0"
                 /\ body[2] = "x"
                 /\ Range(SubSeq(body, 3, Len(body))) \subseteq Range(HexChars)
        isDec == /\ Len(body) >= 1
                 /\ Range(body) \subseteq Range(DecChars)
                 /\ (body[1] # "0" \/ Range(body) = {"0"})
        mag == IF isHex THEN DigitsValue(SubSeq(body, 3, Len(body)), 16, 0)
               ELSE IF isDec THEN DigitsValue(body, 10, 0)
               ELSE 0
    IN  [ok |-> isHex \/ isDec, val |-> Negate(s, mag)]

\* int(text) on the modelled alphabet: surrounding whitespace, a sign, decimal
\* digits (leading zeros allowed, no 0x).
ParseDec(text) ==
    LET s == Strip(text)
        body == Unsigned(s)
        isDec == Len(body) >= 1 /\ Range(body) \subseteq Range(DecChars)
    IN  [ok |-> isDec,
         val |-> IF isDec THEN Negate(s, DigitsValue(body, 10, 0)) ELSE 0]

\* float(text) on the modelled alphabet: as int(text), and a fraction ".0"
WithoutFraction(s) ==
    IF Len(s) >= 3 /\ SubSeq(s, Len(s) - 1, Len(s)) = <<".", "0">>
    THEN SubSeq(s, 1, Len(s) - 2)
    ELSE s

ParseFloat(text) == ParseDec(WithoutFraction(Strip(text)))

\* str(n) of an integer
RECURSIVE Digits(_)
Digits(n) ==
    IF n < 10 THEN <<DecChars[n + 1]>>
    ELSE Append(Digits(n \div 10), DecChars[(n % 10) + 1])

DecText(v) == IF v < 0 THEN <<"-">> \o Digits(0 - v) ELSE Digits(v)

\* ", ".join(str(int(entry)) for entry in tag)
RECURSIVE JoinInts(_)
JoinInts(arr) ==
    IF arr = <<>> THEN <<>>
    ELSE IF Len(arr) = 1 THEN DecText(arr[1])
    ELSE DecText(arr[1]) \o <<",", " ">> \o JoinInts(Tail(arr))

\* str.split(","): the pieces between commas
RECURSIVE SplitComma(_, _)
SplitComma(s, cur) ==
    IF s = <<>> THEN <<cur>>
    ELSE IF Head(s) = "," THEN <<cur>> \o SplitComma(Tail(s), <<>>)
    ELSE SplitComma(Tail(s), Append(cur, Head(s)))

RECURSIVE NonEmptyStripped(_)
NonEmptyStripped(parts) ==
    IF parts = <<>> THEN <<>>
    ELSE IF Strip(Head(parts)) = <<>> THEN NonEmptyStripped(Tail(parts))
    ELSE <<Strip(Head(parts))>> \o NonEmptyStripped(Tail(parts))

NoBound == 1000000

\* The loop of _parse_int_list over the parts, stopping at the first error.
RECURSIVE ParseParts(_, _, _, _)
ParseParts(parts, minimum, maximum, numbers) ==
    IF parts = <<>> THEN [ok |-> TRUE, err |-> "", vals |-> numbers]
    ELSE LET p == ParseInt0(Head(parts))
         IN  IF ~p.ok
             THEN [ok |-> FALSE, err |-> "InvalidInteger", vals |-> <<>>]
             ELSE IF minimum # NoBound /\ p.val < minimum
             THEN [ok |-> FALSE, err |-> "OutOfRange", vals |-> <<>>]
             ELSE IF maximum # NoBound /\ p.val > maximum
             THEN [ok |-> FALSE, err |-> "OutOfRange", vals |-> <<>>]
             ELSE ParseParts(Tail(parts), minimum, maximum,
                             Append(numbers, p.val))

\* (a faulty variant: no range is applied)
ParseUnbounded(text, minimum, maximum) ==
    IF Strip(text) = <<>> THEN [ok |-> TRUE, err |-> "", vals |-> <<>>]
    ELSE ParseParts(NonEmptyStripped(
                        SplitComma(StripChars(Strip(text), {"[", "]"}), <<>>)),
                    NoBound, NoBound, <<>>)

_parse_int_list(text, minimum, maximum) ==
    IF Strip(text) = <<>> THEN [ok |-> TRUE, err |-> "", vals |-> <<>>]
    ELSE LET stripped == StripChars(Strip(text), {"[", "]"})
             parts == NonEmptyStripped(SplitComma(stripped, <<>>))
         IN  ParseParts(parts, minimum, maximum, <<>>)

-----------------------------------------------------------------------------
(* Tag objects *)

\* One shape for every tag: a number for the integer and float kinds, a text
\* for String, a sequence for the arrays, entries for Compound (key, ref) and
\* List (ref, in order; sub is the list's subtype, "End" while untyped).
Tag(kind, sub, val, text, arr, ents) ==
    [kind |-> kind, sub |-> sub, val |-> val, text |-> text, arr |-> arr,
     ents |-> ents]

NumTag(kind, v) == Tag(kind, "", v, <<>>, <<>>, <<>>)
StringTag(t) == Tag("String", "", 0, t, <<>>, <<>>)
ArrayTag(kind, a) == Tag(kind, "", 0, <<>>, a, <<>>)
CompoundTag(ents) == Tag("Compound", "", 0, <<>>, <<>>, ents)
ListTag(sub, ents) == Tag("List", sub, 0, <<>>, <<>>, ents)

Entry(key, ref) == [key |-> key, ref |-> ref]

\* nbtlib's range of each integer kind.  Int and Long are wider than any
\* number the model's texts denote.
InRange(kind, v) ==
    CASE kind = "Byte" -> v >= -128 /\ v <= 127
      [] kind = "Short" -> v >= -32768 /\ v <= 32767
      [] OTHER -> TRUE

Failed(err) == [ok |-> FALSE, err |-> err, tag |-> NumTag("Byte", 0)]
Made(tag) == [ok |-> TRUE, err |-> "", tag |-> tag]

FromList(kind, parsed) ==
    IF parsed.ok THEN Made(ArrayTag(kind, parsed.vals)) ELSE Failed(parsed.err)

\* _create_tag_from_input after the strip of type_name: the new tag, or the
\* ValueError it raises.  A number
\* outside the kind's range makes nbtlib raise OutOfRange, a ValueError, which
\* the handler reports like an unparseable one.
CreateTag(type_name, value) ==
    IF type_name \notin TagNames THEN Failed("Unsupported")
    ELSE IF type_name = "Compound" THEN Made(CompoundTag(<<>>))
    ELSE IF type_name = "List" THEN Made(ListTag("End", <<>>))
    ELSE IF type_name = "String" THEN Made(StringTag(value))
    ELSE IF type_name \in NUMERIC_TYPES
    THEN LET p == ParseInt0(value)
         IN  IF p.ok /\ InRange(type_name, p.val)
             THEN Made(NumTag(type_name, p.val))
             ELSE Failed("InvalidInteger")
    ELSE IF type_name \in FLOAT_TYPES
    THEN LET p == ParseFloat(value)
         IN  IF p.ok THEN Made(NumTag(type_name, p.val))
             ELSE Failed("InvalidFloat")
    ELSE IF type_name = "ByteArray"
    THEN FromList(type_name, _parse_int_list(value, -128, 127))
    ELSE FromList(type_name, _parse_int_list(value, NoBound, NoBound))

_create_tag_from_input(type_name, value) ==
    CreateTag(StrOf(Strip(<<type_name>>)), value)

-----------------------------------------------------------------------------
(* Reading the tree *)

IsContainer(h, t) == h[t].kind \in {"Compound", "List"}

Keys(h, c) == {h[c].ents[i].key : i \in DOMAIN h[c].ents}

\* dict.get(key): the value's object, or 0 when the key is absent
Get(h, c, key) ==
    IF key \in Keys(h, c)
    THEN h[c].ents[CHOOSE i \in DOMAIN h[c].ents : h[c].ents[i].key = key].ref
    ELSE 0

Refs(h, t) == [i \in DOMAIN h[t].ents |-> h[t].ents[i].ref]

\* int(text) of a String tag
IntOfText(p) ==
    [ok |-> p.ok, err |-> IF p.ok THEN "" ELSE "ValueError", val |-> p.val]

\* int(tag): the number, or the exception Python raises
IntOf(h, t) ==
    IF h[t].kind \in NUMERIC_TYPES \cup FLOAT_TYPES
    THEN [ok |-> TRUE, err |-> "", val |-> h[t].val]
    ELSE IF h[t].kind = "String" THEN IntOfText(ParseDec(h[t].text))
    ELSE IF h[t].kind \in ARRAY_TYPES /\ Len(h[t].arr) = 1
    THEN [ok |-> TRUE, err |-> "", val |-> h[t].arr[1]]
    ELSE [ok |-> FALSE, err |-> "TypeError", val |-> 0]

\* int(item.get("Slot", Byte(0))): only a Compound has get
SlotOf(h, item) ==
    IF h[item].kind # "Compound"
    THEN [ok |-> FALSE, err |-> "AttributeError", val |-> 0]
    ELSE IF Get(h, item, "Slot") = 0
    THEN [ok |-> TRUE, err |-> "", val |-> 0]
    ELSE IntOf(h, Get(h, item, "Slot"))

\* Python's truth value of a tag ("if not self.nbt_data")
Falsy(h, t) ==
    \/ t = 0
    \/ h[t].kind \in {"Compound", "List"} /\ h[t].ents = <<>>
    \/ h[t].kind \in NUMERIC_TYPES \cup FLOAT_TYPES /\ h[t].val = 0
    \/ h[t].kind = "String" /\ h[t].text = <<>>
    \/ h[t].kind \in ARRAY_TYPES /\ h[t].arr = <<>>

-----------------------------------------------------------------------------
(* Paths and the addressing cache *)

\* A path component: a compound key or a list index
KeyC(name) == [isIdx |-> FALSE, name |-> name, idx |-> 0]
IdxC(i) == [isIdx |-> TRUE, name |-> "", idx |-> i]
NoKey == [isIdx |-> FALSE, name |-> "", idx |-> -1]

NodeInfo(tag, parent, key, path) ==
    [tag |-> tag, parent |-> parent, key |-> key, path |-> path]

NoInfo == NodeInfo(0, 0, NoKey, <<>>)

\* An Optional path: None, or a tuple
NoPath == [set |-> FALSE, path |-> <<>>]
SomePath(p) == [set |-> TRUE, path |-> p]
Truthy(op) == op.set /\ op.path # <<>>

\* the path component of entry i of a container
Component(h, tag, i) ==
    IF h[tag].kind = "Compound" THEN KeyC(h[tag].ents[i].key) ELSE IdxC(i - 1)

\* _populate_tree from entry i of tag on: each child, then its subtree
RECURSIVE _populate_tree(_, _, _, _)
_populate_tree(h, tag, path, i) ==
    IF ~IsContainer(h, tag) \/ i > Len(h[tag].ents) THEN <<>>
    ELSE <<NodeInfo(h[tag].ents[i].ref, tag, Component(h, tag, i),
                    Append(path, Component(h, tag, i)))>>
         \o _populate_tree(h, h[tag].ents[i].ref,
                           Append(path, Component(h, tag, i)), 1)
         \o _populate_tree(h, tag, path, i + 1)

\* The node_map that build_tree fills: the root's item, then the walk
BuiltNodeMap(h, r) ==
    IF Falsy(h, r) THEN <<>>
    ELSE <<NodeInfo(r, 0, NoKey, <<>>)>> \o _populate_tree(h, r, <<>>, 1)

\* path_to_id[path] = item_id, a later item overwriting an earlier one
BuiltPathToId(nm) ==
    [p \in {nm[i].path : i \in DOMAIN nm} |->
        CHOOSE i \in DOMAIN nm :
            /\ nm[i].path = p
            /\ \A j \in DOMAIN nm : nm[j].path = p => j <= i]

\* _update_detail_panel's choice of editor
EditorMode(h, info) ==
    IF info.tag = 0 THEN "entry"
    ELSE IF IsContainer(h, info.tag) THEN "message"
    ELSE IF h[info.tag].kind \in ARRAY_TYPES THEN "text"
    ELSE "entry"

\* the text _update_detail_panel puts into the value widget (a float is
\* modelled only where it is a whole number)
ValueShown(h, tag) ==
    IF h[tag].kind \in NUMERIC_TYPES THEN DecText(h[tag].val)
    ELSE IF h[tag].kind \in FLOAT_TYPES THEN DecText(h[tag].val) \o <<".", "0">>
    ELSE IF h[tag].kind = "String" THEN h[tag].text
    ELSE IF h[tag].kind \in ARRAY_TYPES THEN JoinInts(h[tag].arr)
    ELSE <<>>

\* target_path = select_path or self.current_path or ()
TargetPath(select_path, cur_path) ==
    IF Truthy(select_path) THEN select_path.path
    ELSE IF Truthy(cur_path) THEN cur_path.path
    ELSE <<>>

\* self.path_to_id.get(target_path): the item, or 0
TargetItem(p2i, target_path) ==
    IF target_path \in DOMAIN p2i THEN p2i[target_path] ELSE 0

-----------------------------------------------------------------------------
(* The inventory view *)

\* d[k] = v on a dict held as a function
DictPut(d, k, v) == [x \in DOMAIN d \cup {k} |-> IF x = k THEN v ELSE d[x]]

\* d.get(k): the value, or 0 for None
DictGet(d, k) == IF k \in DOMAIN d THEN d[k] ELSE 0

\* (a faulty variant: the first item of a slot is kept)
RECURSIVE FirstBySlot(_, _, _)
FirstBySlot(h, items, n) ==
    IF n = 0 THEN <<>>
    ELSE IF SlotOf(h, items[n]).val \in DOMAIN FirstBySlot(h, items, n - 1)
    THEN FirstBySlot(h, items, n - 1)
    ELSE DictPut(FirstBySlot(h, items, n - 1), SlotOf(h, items[n]).val,
                 items[n])

\* the loop of lines 960-962 over the first n items:
\* items_by_slot[slot_value] = item
RECURSIVE items_by_slot(_, _, _)
items_by_slot(h, items, n) ==
    IF n = 0 THEN <<>>
    ELSE DictPut(items_by_slot(h, items, n - 1), SlotOf(h, items[n]).val,
                 items[n])

\* items_by_slot.get(slot) after the loop
ItemsBySlot(h, items, slot) ==
    DictGet(items_by_slot(h, items, Len(items)), slot)

\* what "for item in inventory_tag" yields, or that it cannot be done
IterItems(h, t) ==
    IF h[t].kind = "List" THEN [ok |-> TRUE, items |-> Refs(h, t)]
    ELSE IF /\ h[t].kind \in {"Compound", "String"} \cup ARRAY_TYPES
            /\ h[t].ents = <<>> /\ h[t].text = <<>> /\ h[t].arr = <<>>
    THEN [ok |-> TRUE, items |-> <<>>]
    ELSE [ok |-> FALSE, items |-> <<>>]

\* _format_slot_button_text fails only where int(count_tag) raises something
\* other than the TypeError it catches
CountOk(h, count_tag) ==
    count_tag = 0 \/ IntOf(h, count_tag).err # "ValueError"

FormatOk(h, item) == item = 0 \/ CountOk(h, Get(h, item, "Count"))

RECURSIVE SortedSeq(_)
SortedSeq(S) ==
    IF S = {} THEN <<>>
    ELSE <<CHOOSE x \in S : \A y \in S : x <= y>>
         \o SortedSeq(S \ {CHOOSE x \in S : \A y \in S : x <= y})

\* (a faulty variant: the populated slots are left out)
FixedSpecial(populated, grid_layout, special_slots) ==
    IF special_slots THEN SPECIAL_PLAYER_SLOTS ELSE {}

\* the special slots shown: the fixed ones and the populated ones outside the
\* grid
AllSpecial(populated, grid_layout, special_slots) ==
    IF special_slots
    THEN SPECIAL_PLAYER_SLOTS \cup (populated \ Range(grid_layout))
    ELSE {}

\* the slots that get a button, in the order the buttons are made
ButtonOrder(h, items, grid_layout, special_slots) ==
    grid_layout
    \o SortedSeq(AllSpecial({SlotOf(h, items[i]).val : i \in DOMAIN items},
                            grid_layout, special_slots))

\* the buttons of a tab: the list and the name they captured, their slots,
\* the slots of the special panel in the order of its buttons, and the item
\* each button shows (0: empty)
Tab(tag_name, inventory_tag, slots, panel, by_slot) ==
    [tag_name |-> tag_name, list |-> inventory_tag, slots |-> slots,
     panel |-> panel, shown |-> [s \in slots |-> DictGet(by_slot, s)]]

\* the first n of a sequence
Prefix(seq, n) == SubSeq(seq, 1, n)

\* how many buttons are made before the first one of bad
MadeCount(order, bad) ==
    Cardinality({j \in DOMAIN order : \A b \in bad : j < b})

\* the buttons made before the first one whose text cannot be formatted
MadeButtons(order, grid_size, bad, inventory_tag, tag_name, by_slot) ==
    [ok |-> bad = {},
     tab |-> Tab(tag_name, inventory_tag,
                 Range(Prefix(order, MadeCount(order, bad))),
                 SubSeq(order, grid_size + 1, MadeCount(order, bad)),
                 by_slot)]

PopulateButtons(h, by_slot, order, grid_size, inventory_tag, tag_name) ==
    MadeButtons(order, grid_size,
                {i \in DOMAIN order :
                     ~FormatOk(h, DictGet(by_slot, order[i]))},
                inventory_tag, tag_name, by_slot)

PopulateItems(h, it, inventory_tag, grid_layout, special_slots, tag_name) ==
    IF ~it.ok \/ \E i \in DOMAIN it.items : ~SlotOf(h, it.items[i]).ok
    THEN [ok |-> FALSE, tab |-> Tab(tag_name, inventory_tag, {}, <<>>, <<>>)]
    ELSE PopulateButtons(h, items_by_slot(h, it.items, Len(it.items)),
                         ButtonOrder(h, it.items, grid_layout, special_slots),
                         Len(grid_layout), inventory_tag, tag_name)

\* _populate_inventory_frame: the buttons made before an exception, if any,
\* ends the function
_populate_inventory_frame(h, inventory_tag, grid_layout, special_slots, tag_name) ==
    PopulateItems(h, IterItems(h, inventory_tag), inventory_tag, grid_layout,
                  special_slots, tag_name)

EnderTab(h, end) ==
    IF end = 0 THEN <<>>
    ELSE <<_populate_inventory_frame(h, end, ENDER_GRID, FALSE,
                                     "EnderItems").tab>>

InventoryTab(h, t1, end) ==
    IF ~t1.ok THEN <<t1.tab>> ELSE <<t1.tab>> \o EnderTab(h, end)

BuildTabs(h, inv, end) ==
    IF inv = 0 THEN EnderTab(h, end)
    ELSE InventoryTab(h, _populate_inventory_frame(h, inv, INVENTORY_GRID,
                                                   TRUE, "Inventory"), end)

\* build_inventory_tabs: the Inventory tab, then the Ender Chest tab; an
\* exception in the first leaves the second unbuilt
build_inventory_tabs(h, r) ==
    IF Falsy(h, r) \/ h[r].kind # "Compound" THEN <<>>
    ELSE BuildTabs(h, Get(h, r, "Inventory"), Get(h, r, "EnderItems"))

-----------------------------------------------------------------------------
(* refresh_views and selection *)

\* _on_tree_select / _clear_selection on the item build_tree selected
Selected(h, nm, item) ==
    /\ current_info' = IF item = 0 THEN NoInfo ELSE nm[item]
    /\ current_path' = IF item = 0 THEN NoPath ELSE SomePath(nm[item].path)
    /\ value_editor_mode' = IF item = 0 THEN "entry"
                            ELSE EditorMode(h, nm[item])

\* build_tree(select_path), given the node_map it filled
build_tree(h, nm, p2i, select_path) ==
    /\ node_map' = nm
    /\ path_to_id' = p2i
    /\ Selected(h, nm, TargetItem(p2i, TargetPath(select_path, current_path)))

BuildTreeOf(h, nm, select_path) ==
    build_tree(h, nm, BuiltPathToId(nm), select_path)

\* refresh_views(select_path) on the tree h, r
refresh_views(h, r, select_path) ==
    /\ BuildTreeOf(h, BuiltNodeMap(h, r), select_path)
    /\ inv_tabs' = build_inventory_tabs(h, r)

-----------------------------------------------------------------------------
(* Container operations of dict and of nbtlib's List *)

Front(s) == SubSeq(s, 1, Len(s) - 1)
RemoveAt(s, i) == SubSeq(s, 1, i - 1) \o SubSeq(s, i + 1, Len(s))
KeyPos(ents, key) == CHOOSE i \in DOMAIN ents : ents[i].key = key
HasKey(ents, key) == \E i \in DOMAIN ents : ents[i].key = key

\* del d[key] / d.pop(key)
DictDel(ents, key) == RemoveAt(ents, KeyPos(ents, key))

\* d[key] = ref: in place when the key exists, else added last
DictSet(ents, key, ref) ==
    IF HasKey(ents, key)
    THEN [ents EXCEPT ![KeyPos(ents, key)] = Entry(key, ref)]
    ELSE Append(ents, Entry(key, ref))

\* (a faulty variant: the key renamed where it stands)
RenameInPlace(ents, key, new_name) ==
    [ents EXCEPT ![KeyPos(ents, key)].key = new_name]

\* parent[new_name] = parent.pop(key)
DictRename(ents, key, new_name) ==
    DictSet(DictDel(ents, key), new_name, ents[KeyPos(ents, key)].ref)

\* del l[index], the index counted from 0
ListDel(ents, index) == RemoveAt(ents, index + 1)

\* l[index] = ref
ListSet(ents, index, ref) == [ents EXCEPT ![index + 1] = Entry("", ref)]

\* (a faulty variant: a list that takes any tag)
CastAny(sub, kind) == TRUE

\* nbtlib's cast_item: a list takes a tag of its subtype only (an untyped list
\* takes none); anything else raises IncompatibleItemType
CastOk(sub, kind) == sub = kind

WithEnts(h, c, ents) == [h EXCEPT ![c].ents = ents]

-----------------------------------------------------------------------------
(* What a handler did: its outcome, the tree it left, and whether it called *)
(* refresh_views (and with which select_path)                              *)

Stay(outcome, h, r) ==
    [outcome |-> outcome, heap |-> h, root |-> r, refresh |-> FALSE,
     select |-> NoPath]

Refreshed(outcome, h, r, select_path) ==
    [outcome |-> outcome, heap |-> h, root |-> r, refresh |-> TRUE,
     select |-> SomePath(select_path)]

-----------------------------------------------------------------------------
(* apply_changes *)

\* _get_value_input
_get_value_input(mode, typed) ==
    IF mode = "entry" THEN typed
    ELSE IF mode = "text" THEN Strip(typed)
    ELSE <<>>

\* the rename of lines 711-722 applies
RenameApplies(h, info) ==
    info.parent # 0 /\ h[info.parent].kind = "Compound" /\ ~info.key.isIdx

Renames(h, info, new_name) ==
    RenameApplies(h, info) /\ new_name # info.key.name

\* parent[key] = new_tag (line 740), or the exception it raises
SetItem(h, parent, key, ref) ==
    IF h[parent].kind = "Compound"
    THEN [ok |-> TRUE,
          heap |-> WithEnts(h, parent, DictSet(h[parent].ents, key.name, ref))]
    ELSE IF key.idx >= Len(h[parent].ents)
            \/ ~CastOk(h[parent].sub, h[ref].kind)
    THEN [ok |-> FALSE, heap |-> h]
    ELSE [ok |-> TRUE,
          heap |-> WithEnts(h, parent, ListSet(h[parent].ents, key.idx, ref))]

\* lines 734-741, the new tag stored or not
Stored(h1, r, select_path, set) ==
    IF ~set.ok THEN Stay("Exception", h1, r)
    ELSE Refreshed("Applied", set.heap, r, select_path)

\* lines 728-741, given what _create_tag_from_input made
StoreValue(h1, r, parent, key, select_path, made) ==
    IF ~made.ok THEN Stay("InvalidValue", h1, r)
    ELSE IF parent = 0
    THEN Refreshed("Applied", Append(h1, made.tag), Len(h1) + 1, <<>>)
    ELSE Stored(h1, r, select_path,
                SetItem(Append(h1, made.tag), parent, key, Len(h1) + 1))

\* lines 724-741, after the rename part: h1 is the tree, key the node's key
ReplaceValue(h1, r, kind, parent, key, select_path, mode, typed) ==
    IF mode = "message" THEN Refreshed("Applied", h1, r, select_path)
    ELSE StoreValue(h1, r, parent, key, select_path,
                    _create_tag_from_input(kind, _get_value_input(mode, typed)))

\* line 720: parent[new_name] = parent.pop(key)
RenameKey(h, parent, key, new_name) ==
    WithEnts(h, parent, DictRename(h[parent].ents, key, new_name))

Renamed(h, r, info, mode, new_name, typed) ==
    IF info.tag = 0 THEN Stay("NoSelection", h, r)
    ELSE IF RenameApplies(h, info) /\ new_name = ""
    THEN Stay("EmptyName", h, r)
    ELSE IF Renames(h, info, new_name) /\ HasKey(h[info.parent].ents, new_name)
    THEN Stay("DuplicateName", h, r)
    ELSE IF /\ Renames(h, info, new_name)
            /\ ~HasKey(h[info.parent].ents, info.key.name)
    THEN Stay("KeyError", h, r)
    ELSE IF Renames(h, info, new_name)
    THEN ReplaceValue(RenameKey(h, info.parent, info.key.name, new_name), r,
                      h[info.tag].kind, info.parent, KeyC(new_name),
                      Append(Front(info.path), KeyC(new_name)), mode, typed)
    ELSE ReplaceValue(h, r, h[info.tag].kind, info.parent, info.key,
                      info.path, mode, typed)

\* apply_changes with name_var and the value widget as the user left them
apply_changes(h, r, info, mode, name_var, typed) ==
    Renamed(h, r, info, mode, StrOf(Strip(name_var)), typed)

-----------------------------------------------------------------------------
(* add_child *)

NoResult == [ok |-> FALSE, name |-> "", type |-> "", value |-> <<>>]

Submitted(require_name, name, type_name, typed) ==
    IF type_name = "" THEN NoResult
    ELSE IF require_name /\ name = "" THEN NoResult
    ELSE IF type_name \notin {"Compound", "List"} /\ Strip(typed) = <<>>
    THEN NoResult
    ELSE [ok |-> TRUE, name |-> IF require_name THEN name ELSE "",
          type |-> type_name, value |-> Strip(typed)]

\* AddTagDialog._on_submit: the result, or NoResult where it shows an error
\* and the dialog stays open
AddTagDialog_on_submit(require_name, name_var, type_var, value_var) ==
    Submitted(require_name, StrOf(Strip(name_var)), StrOf(Strip(<<type_var>>)),
              value_var)

\* the types the dialog of add_child offers (lines 817, 837-843)
TypeOptions(h, tag) ==
    IF h[tag].kind = "List" /\ h[tag].sub # "End" THEN {h[tag].sub}
    ELSE TagNames

\* _replace_tag: the heap and the root after it
_replace_tag(h, r, info, new_tag) ==
    IF info.parent = 0 THEN [heap |-> h, root |-> new_tag]
    ELSE [heap |-> SetItem(h, info.parent, info.key, new_tag).heap, root |-> r]

\* (a faulty variant: the new list made with the subtype of the old one)
SameListType(h, tag, type_name) == ListTag(h[tag].sub, h[tag].ents)

\* typed_list_cls(tag): a new list of the chosen subtype with tag's items
TypedList(h, tag, type_name) == ListTag(type_name, h[tag].ents)

\* (a faulty variant: the value coerced before the name is looked up)
AddCoercingFirst(h, r, info, result, made) ==
    IF ~made.ok THEN Stay("InvalidValue", h, r)
    ELSE IF HasKey(h[info.tag].ents, result.name)
    THEN Stay("DuplicateName", h, r)
    ELSE Refreshed("Added",
                   WithEnts(Append(h, made.tag), info.tag,
                            DictSet(h[info.tag].ents, result.name, Len(h) + 1)),
                   r, Append(info.path, KeyC(result.name)))

\* lines 823-835
AddToCompound(h, r, info, result, made) ==
    IF HasKey(h[info.tag].ents, result.name) THEN Stay("DuplicateName", h, r)
    ELSE IF ~made.ok THEN Stay("InvalidValue", h, r)
    ELSE Refreshed("Added",
                   WithEnts(Append(h, made.tag), info.tag,
                            DictSet(h[info.tag].ents, result.name, Len(h) + 1)),
                   r, Append(info.path, KeyC(result.name)))

\* lines 873-875: tag.append(new_tag) on the list of the tree t
AppendTo(t, list, new_tag, path) ==
    IF ~CastOk(t.heap[list].sub, t.heap[new_tag].kind)
    THEN Stay("Exception", t.heap, t.root)
    ELSE Refreshed("Added",
                   WithEnts(t.heap, list,
                            Append(t.heap[list].ents, Entry("", new_tag))),
                   t.root, Append(path, IdxC(Len(t.heap[list].ents))))

\* lines 856-875
AddToList(h, r, info, result, made) ==
    IF ~made.ok THEN Stay("InvalidValue", h, r)
    ELSE IF h[info.tag].sub = "End"
    THEN AppendTo(_replace_tag(Append(Append(h, made.tag),
                                      TypedList(h, info.tag, result.type)),
                               r, info, Len(h) + 2),
                  Len(h) + 2, Len(h) + 1, info.path)
    ELSE AppendTo([heap |-> Append(h, made.tag), root |-> r], info.tag,
                  Len(h) + 1, info.path)

add_child(h, r, parent_info, result) ==
    IF parent_info.tag = 0 THEN Stay("NoSelection", h, r)
    ELSE IF ~IsContainer(h, parent_info.tag) THEN Stay("NotContainer", h, r)
    ELSE IF ~result.ok THEN Stay("Cancelled", h, r)
    ELSE IF h[parent_info.tag].kind = "Compound"
    THEN AddToCompound(h, r, parent_info, result,
                       _create_tag_from_input(result.type, result.value))
    ELSE AddToList(h, r, parent_info, result,
                   _create_tag_from_input(result.type, result.value))

-----------------------------------------------------------------------------
(* delete_node *)

\* lines 895-898
Deleted(h, parent, key) ==
    IF h[parent].kind = "Compound" /\ ~key.isIdx
    THEN WithEnts(h, parent, DictDel(h[parent].ents, key.name))
    ELSE IF h[parent].kind = "List" /\ key.isIdx
    THEN WithEnts(h, parent, ListDel(h[parent].ents, key.idx))
    ELSE h

\* del parent[key] raises KeyError or IndexError
DeleteRaises(h, parent, key) ==
    \/ h[parent].kind = "Compound" /\ ~key.isIdx
       /\ ~HasKey(h[parent].ents, key.name)
    \/ h[parent].kind = "List" /\ key.isIdx /\ key.idx >= Len(h[parent].ents)

\* (a faulty variant: the answer to the confirmation is not looked at)
DeleteUnasked(h, r, info, confirmed) ==
    IF info.tag = 0 \/ info.parent = 0 THEN Stay("Rejected", h, r)
    ELSE IF DeleteRaises(h, info.parent, info.key) THEN Stay("Exception", h, r)
    ELSE Refreshed("Deleted", Deleted(h, info.parent, info.key), r,
                   Front(info.path))

delete_node(h, r, info, confirmed) ==
    IF info.tag = 0 \/ info.parent = 0 THEN Stay("Rejected", h, r)
    ELSE IF ~confirmed THEN Stay("Declined", h, r)
    ELSE IF DeleteRaises(h, info.parent, info.key) THEN Stay("Exception", h, r)
    ELSE Refreshed("Deleted", Deleted(h, info.parent, info.key), r,
                   Front(info.path))

-----------------------------------------------------------------------------
(* _edit_inventory_item *)

\* ItemEditorDialog._parse_int
ParsedInt(p, allow_negative) ==
    IF ~p.ok THEN [ok |-> FALSE, val |-> 0]
    ELSE IF ~allow_negative /\ p.val < 0 THEN [ok |-> FALSE, val |-> 0]
    ELSE [ok |-> TRUE, val |-> p.val]

_parse_int(value, allow_negative) == ParsedInt(ParseInt0(value), allow_negative)

NoSave == [action |-> "none", slot |-> 0, id |-> <<>>, count |-> 0]

\* (a faulty variant: the id and the count are not checked)
SaveUnchecked(slot_value, item_id, count_value) ==
    IF ~slot_value.ok THEN [NoSave EXCEPT !.action = "InvalidSlot"]
    ELSE [action |-> "save", slot |-> slot_value.val, id |-> item_id,
          count |-> count_value.val]

\* ItemEditorDialog._on_save: the result, or the error it shows while the
\* dialog stays open
OnSave(slot_value, item_id, count_value) ==
    IF ~slot_value.ok THEN [NoSave EXCEPT !.action = "InvalidSlot"]
    ELSE IF item_id = <<>> THEN [NoSave EXCEPT !.action = "InvalidId"]
    ELSE IF ~count_value.ok \/ ~(0 <= count_value.val /\ count_value.val <= 64)
    THEN [NoSave EXCEPT !.action = "InvalidCount"]
    ELSE [action |-> "save", slot |-> slot_value.val, id |-> item_id,
          count |-> count_value.val]

ItemEditorDialog_on_save(slot_text, id_text, count_text) ==
    OnSave(_parse_int(Strip(slot_text), TRUE), Strip(id_text),
           _parse_int(Strip(count_text), FALSE))

\* the buttons of the dialog: Delete is offered for an existing item only
DialogButtons(item) ==
    {"cancel", "save"} \cup (IF item = 0 THEN {} ELSE {"delete"})

\* _find_inventory_item from item i of the list on: the first item other
\* than exclude whose slot is slot (0: none), or the exception of a Slot
\* that is no number
RECURSIVE _find_inventory_item(_, _, _, _, _)
_find_inventory_item(h, items, slot, exclude, i) ==
    IF i > Len(items) THEN [ok |-> TRUE, item |-> 0]
    ELSE IF items[i] = exclude
    THEN _find_inventory_item(h, items, slot, exclude, i + 1)
    ELSE IF ~SlotOf(h, items[i]).ok THEN [ok |-> FALSE, item |-> 0]
    ELSE IF SlotOf(h, items[i]).val = slot THEN [ok |-> TRUE, item |-> items[i]]
    ELSE _find_inventory_item(h, items, slot, exclude, i + 1)

\* Python's == on two tags: numbers by value, strings by text, a Compound
\* as a mapping (whatever the order of its keys), a List item by item
RECURSIVE PyEq(_, _, _)
PyEq(h, a, b) ==
    \/ a = b
    \/ /\ h[a].kind \in NUMERIC_TYPES \cup FLOAT_TYPES
       /\ h[b].kind \in NUMERIC_TYPES \cup FLOAT_TYPES
       /\ h[a].val = h[b].val
    \/ h[a].kind = "String" /\ h[b].kind = "String" /\ h[a].text = h[b].text
    \/ h[a].kind \in ARRAY_TYPES /\ h[b].kind \in ARRAY_TYPES
       /\ h[a].arr = h[b].arr
    \/ /\ h[a].kind = "Compound" /\ h[b].kind = "Compound"
       /\ Keys(h, a) = Keys(h, b)
       /\ \A k \in Keys(h, a) : PyEq(h, Get(h, a, k), Get(h, b, k))
    \/ /\ h[a].kind = "List" /\ h[b].kind = "List"
       /\ Len(h[a].ents) = Len(h[b].ents)
       /\ \A i \in DOMAIN h[a].ents :
              PyEq(h, h[a].ents[i].ref, h[b].ents[i].ref)

\* (a faulty variant: the last element is removed)
DropLast(h, ents, item) == Front(ents)

\* list.remove(item): without the first element equal to item
ListRemove(h, ents, item) ==
    RemoveAt(ents, CHOOSE i \in DOMAIN ents :
                       /\ PyEq(h, ents[i].ref, item)
                       /\ \A j \in 1..(i - 1) : ~PyEq(h, ents[j].ref, item))

\* list.sort(key=slot): stable, ascending
RECURSIVE InsertBySlot(_, _, _)
InsertBySlot(h, sorted, e) ==
    IF sorted = <<>> THEN <<e>>
    ELSE IF SlotOf(h, sorted[Len(sorted)].ref).val <= SlotOf(h, e.ref).val
    THEN Append(sorted, e)
    ELSE Append(InsertBySlot(h, Front(sorted), e), sorted[Len(sorted)])

RECURSIVE SortPrefix(_, _, _)
SortPrefix(h, ents, n) ==
    IF n = 0 THEN <<>>
    ELSE InsertBySlot(h, SortPrefix(h, ents, n - 1), ents[n])

\* (a faulty variant: no sort)
KeepOrder(h, ents) == ents

SortBySlot(h, ents) == SortPrefix(h, ents, Len(ents))

\* lines 1032-1036: a new item, appended
NewItem(h, list, new_slot, new_id, new_count) ==
    WithEnts(h \o <<CompoundTag(<<Entry("Slot", Len(h) + 2),
                                  Entry("id", Len(h) + 3),
                                  Entry("Count", Len(h) + 4)>>),
                    NumTag("Byte", new_slot), StringTag(new_id),
                    NumTag("Byte", new_count)>>,
             list, Append(h[list].ents, Entry("", Len(h) + 1)))

\* lines 1038-1040: the item's three fields set
UpdatedItem(h, item, new_slot, new_id, new_count) ==
    WithEnts(h \o <<NumTag("Byte", new_slot), StringTag(new_id),
                    NumTag("Byte", new_count)>>,
             item,
             DictSet(DictSet(DictSet(h[item].ents, "Slot", Len(h) + 1),
                             "id", Len(h) + 2),
                     "Count", Len(h) + 3))

\* (a faulty variant: a new item whether or not the slot has one)
AlwaysNew(h, list, item, new_slot, new_id, new_count) ==
    NewItem(h, list, new_slot, new_id, new_count)

\* lines 1031-1040
SavedItem(h, list, item, new_slot, new_id, new_count) ==
    IF item = 0 THEN NewItem(h, list, new_slot, new_id, new_count)
    ELSE UpdatedItem(h, item, new_slot, new_id, new_count)

\* lines 1042-1043: the sort, which reads every Slot, and the refresh
SortedItems(h2, r, tab) ==
    IF \E i \in DOMAIN h2[tab.list].ents :
           ~SlotOf(h2, h2[tab.list].ents[i].ref).ok
    THEN Stay("Exception", h2, r)
    ELSE Refreshed("Saved",
                   WithEnts(h2, tab.list, SortBySlot(h2, h2[tab.list].ents)),
                   r, <<KeyC(tab.tag_name)>>)

\* (a faulty variant: the slot's occupant is not looked for)
SaveOverConflict(h, r, tab, item, result, conflict) ==
    IF ~conflict.ok THEN Stay("Exception", h, r)
    ELSE IF ~InRange("Byte", result.slot) THEN Stay("OutOfRange", h, r)
    ELSE IF item = 0 /\ (\/ h[tab.list].kind # "List"
                         \/ ~CastOk(h[tab.list].sub, "Compound"))
    THEN Stay("Exception", h, r)
    ELSE SortedItems(SavedItem(h, tab.list, item, result.slot, result.id,
                               result.count), r, tab)

\* lines 1022-1043
SaveItem(h, r, tab, item, result, conflict) ==
    IF ~conflict.ok THEN Stay("Exception", h, r)
    ELSE IF conflict.item # 0 THEN Stay("SlotConflict", h, r)
    ELSE IF ~InRange("Byte", result.slot) THEN Stay("OutOfRange", h, r)
    ELSE IF item = 0 /\ (\/ h[tab.list].kind # "List"
                         \/ ~CastOk(h[tab.list].sub, "Compound"))
    THEN Stay("Exception", h, r)
    ELSE SortedItems(SavedItem(h, tab.list, item, result.slot, result.id,
                               result.count), r, tab)

\* lines 1008-1043, given the item found for the slot
EditItem(h, r, tab, items, found, button, result) ==
    IF ~found.ok THEN Stay("Exception", h, r)
    ELSE IF button \notin DialogButtons(found.item) \/ button = "cancel"
    THEN Stay("Cancelled", h, r)
    ELSE IF button = "delete" /\ found.item = 0
    THEN Stay("NothingToDelete", h, r)
    ELSE IF button = "delete"
    THEN Refreshed("Deleted",
                   WithEnts(h, tab.list,
                            ListRemove(h, h[tab.list].ents, found.item)),
                   r, <<KeyC(tab.tag_name)>>)
    ELSE IF result.action # "save" THEN Stay(result.action, h, r)
    ELSE SaveItem(h, r, tab, found.item, result,
                  _find_inventory_item(h, items, result.slot, found.item, 1))

EditItems(h, r, tab, slot, it, button, result) ==
    IF ~it.ok THEN Stay("Exception", h, r)
    ELSE EditItem(h, r, tab, it.items,
                  _find_inventory_item(h, it.items, slot, 0, 1), button, result)

_edit_inventory_item(h, r, tab, slot, button, result) ==
    EditItems(h, r, tab, slot, IterItems(h, tab.list), button, result)

-----------------------------------------------------------------------------
(* The inputs the user can give (bounded) *)

NameInputs == {<<>>, <<" ">>, <<"x">>, <<" ", "M">>}
ValueInputs == {<<"7">>, <<"x">>}
TypeInputs == {"Byte", "Compound", "List"}
SlotInputs == {<<"1">>, <<"3">>, <<"1", "5", "0">>}
IdInputs == {<<"b">>, <<" ">>}
CountInputs == {<<"2">>, <<"6", "5">>}
ClickedSlots == {1, 3, 40, 150}

\* The files the exploration opens.  Each is the heap nbtlib.load builds, the
\* root compound first.
TreeFile ==
    <<CompoundTag(<<Entry("n", 2), Entry("L", 3), Entry("M", 5),
                    Entry("Inventory", 9), Entry("EnderItems", 10)>>),
      NumTag("Byte", 5),
      ListTag("List", <<Entry("", 4)>>),
      ListTag("End", <<>>),
      ListTag("Int", <<Entry("", 6), Entry("", 7), Entry("", 8)>>),
      NumTag("Int", 1), NumTag("Int", 2), NumTag("Int", 3),
      ListTag("Int", <<>>),
      ListTag("End", <<>>)>>

PlayerFile ==
    <<CompoundTag(<<Entry("Inventory", 2), Entry("EnderItems", 9)>>),
      ListTag("Compound", <<Entry("", 3), Entry("", 6)>>),
      CompoundTag(<<Entry("Slot", 4), Entry("id", 5)>>),
      NumTag("Byte", 3), StringTag(<<"a">>),
      CompoundTag(<<Entry("id", 7), Entry("Slot", 8)>>),
      StringTag(<<"c">>), NumTag("Byte", 1),
      ListTag("Compound", <<>>)>>

EmptyFile == <<CompoundTag(<<>>)>>

\* an Inventory in which two entries have the same Slot, one has no Slot,
\* and one has a field the item dialog does not edit
SharedSlotFile ==
    <<CompoundTag(<<Entry("Inventory", 2)>>),
      ListTag("Compound", <<Entry("", 3), Entry("", 6), Entry("", 9)>>),
      CompoundTag(<<Entry("Slot", 4), Entry("id", 5)>>),
      NumTag("Byte", 40), StringTag(<<"a">>),
      CompoundTag(<<Entry("Slot", 7), Entry("Damage", 8)>>),
      NumTag("Byte", 40), NumTag("Int", 9),
      CompoundTag(<<Entry("id", 10)>>),
      StringTag(<<"c">>)>>

Files == {TreeFile, PlayerFile, EmptyFile, SharedSlotFile}

-----------------------------------------------------------------------------
(* The actions: one per handler *)

Outcome(op, outcome, name, type, value, slot, new_slot, count) ==
    [op |-> op, outcome |-> outcome, name |-> name, type |-> type,
     value |-> value, slot |-> slot, new_slot |-> new_slot, count |-> count]

Unrefreshed == UNCHANGED <<node_map, path_to_id, current_info, current_path,
                           value_editor_mode, inv_tabs>>

\* a handler ran and did res.  A handler can run in every state in which a
\* file is loaded: its own early returns, not the enabling of its button,
\* decide what it does.
Handled(op, res, name, type, value, slot, new_slot, count) ==
    /\ steps < MaxSteps
    /\ loaded
    /\ steps' = steps + 1
    /\ UNCHANGED loaded
    /\ last' = Outcome(op, res.outcome, name, type, value, slot, new_slot,
                       count)
    /\ heap' = res.heap
    /\ root' = res.root
    /\ IF res.refresh THEN refresh_views(res.heap, res.root, res.select)
       ELSE Unrefreshed

\* what the user may have typed when Apply is clicked
\* (the name field shows the key of the selection until the user edits it)
TypedNames(info) ==
    IF info.tag = 0 THEN {<<>>} ELSE NameInputs \cup {<<info.key.name>>}

\* (the value widget shows the value of the selection until the user edits it)
TypedValues(h, info) ==
    IF info.tag = 0 \/ IsContainer(h, info.tag) THEN {<<>>}
    ELSE ValueInputs \cup {ValueShown(h, info.tag)}

ApplyChanges ==
    \E new_name \in TypedNames(current_info) :
        \E typed \in TypedValues(heap, current_info) :
            Handled("apply",
                    apply_changes(heap, root, current_info, value_editor_mode,
                                  new_name, typed),
                    StrOf(Strip(new_name)), "", typed, 0, 0, <<>>)

\* the offered types that the exploration tries
TriedTypes(h, tag) ==
    TypeOptions(h, tag) \cap (TypeInputs \cup {h[tag].sub})

AddChildCancelled ==
    Handled("add", add_child(heap, root, current_info, NoResult), "", "",
            <<>>, 0, 0, <<>>)

AddChildSubmitted ==
    /\ current_info.tag # 0
    /\ IsContainer(heap, current_info.tag)
    /\ \E name \in IF heap[current_info.tag].kind = "List" THEN {<<>>}
                   ELSE NameInputs :
           \E type_name \in TriedTypes(heap, current_info.tag) :
               \E typed \in IF type_name \in {"Compound", "List"} THEN {<<>>}
                            ELSE ValueInputs :
                   Handled("add",
                           add_child(heap, root, current_info,
                               AddTagDialog_on_submit(
                                   heap[current_info.tag].kind # "List",
                                   name, type_name, typed)),
                           StrOf(Strip(name)), type_name, typed, 0, 0, <<>>)

DeleteNode ==
    \E confirmed \in BOOLEAN :
        Handled("delete", delete_node(heap, root, current_info, confirmed),
                "", IF confirmed THEN "yes" ELSE "no", <<>>, 0, 0, <<>>)

\* a click on the button of a slot, and then Cancel or Delete in the dialog
EditInventoryItemClosed ==
    \E t \in DOMAIN inv_tabs :
        \E slot \in inv_tabs[t].slots \cap ClickedSlots :
            \E button \in {"cancel", "delete"} :
                Handled("inventory",
                        _edit_inventory_item(heap, root, inv_tabs[t], slot,
                                             button, NoSave),
                        inv_tabs[t].tag_name, button, <<>>, slot, 0, <<>>)

\* a click on the button of a slot, and then Save in the dialog
EditInventoryItemSave ==
    \E t \in DOMAIN inv_tabs :
        \E slot \in inv_tabs[t].slots \cap ClickedSlots :
            \E slot_text \in SlotInputs, id_text \in IdInputs,
               count_text \in CountInputs :
                Handled("inventory",
                        _edit_inventory_item(heap, root, inv_tabs[t], slot,
                            "save",
                            ItemEditorDialog_on_save(slot_text, id_text,
                                                     count_text)),
                        inv_tabs[t].tag_name, "save", id_text, slot,
                        ParseInt0(slot_text).val, count_text)

\* _on_tree_select on item
_on_tree_select(item) ==
    /\ loaded
    /\ steps < MaxSteps
    /\ Selected(heap, node_map, item)
    /\ last' = Outcome("select", "", "", "", <<>>, 0, 0, <<>>)
    /\ UNCHANGED <<loaded, root, heap, node_map, path_to_id, inv_tabs, steps>>

TreeSelect == \E item \in DOMAIN node_map : _on_tree_select(item)

\* open_file with a file that nbtlib.load reads (one file is opened in a run
\* of the model)
open_file(file) ==
    /\ ~loaded
    /\ loaded' = TRUE
    /\ root' = 1
    /\ heap' = file
    /\ refresh_views(file, 1, NoPath)
    /\ last' = Outcome("open", "", "", "", <<>>, 0, 0, <<>>)
    /\ UNCHANGED steps

OpenFile == \E file \in Files : open_file(file)

-----------------------------------------------------------------------------
(* The specification *)

Init ==
    /\ loaded = FALSE
    /\ root = 0
    /\ heap = <<>>
    /\ node_map = <<>>
    /\ path_to_id = BuiltPathToId(<<>>)
    /\ current_info = NoInfo
    /\ current_path = NoPath
    /\ value_editor_mode = "entry"
    /\ inv_tabs = <<>>
    /\ last = Outcome("init", "", "", "", <<>>, 0, 0, <<>>)
    /\ steps = 0

Next ==
    \/ OpenFile
    \/ TreeSelect
    \/ ApplyChanges
    \/ AddChildCancelled
    \/ AddChildSubmitted
    \/ DeleteNode
    \/ EditInventoryItemClosed
    \/ EditInventoryItemSave

Spec == Init /\ [][Next]_vars

-----------------------------------------------------------------------------
(* _create_tag_from_input on its own: the array kinds over every short text *)

MaxTextLen == 5

ArrayKinds == {"ByteArray", "IntArray", "LongArray"}
TextChars == {"0", "2", "-", ",", " ", "x", "["}
ArrayTexts == UNION {[1..n -> TextChars] : n \in 0..MaxTextLen}

\* a kind and a text are given
CoerceInit ==
    /\ loaded = FALSE
    /\ root = 0
    /\ heap = <<>>
    /\ node_map = <<>>
    /\ path_to_id = BuiltPathToId(<<>>)
    /\ current_info = NoInfo
    /\ current_path = NoPath
    /\ value_editor_mode = "entry"
    /\ inv_tabs = <<>>
    /\ steps = 0
    /\ \E type_name \in ArrayKinds, value \in ArrayTexts :
           last = Outcome("input", "", "", type_name, value, 0, 0, <<>>)

\* the tag made of them is the only object, or the error is recorded
Coerced(made) ==
    /\ last' = [last EXCEPT !.op = "coerce",
                            !.outcome = IF made.ok THEN "Made" ELSE made.err]
    /\ heap' = IF made.ok THEN <<made.tag>> ELSE <<>>

Coerce ==
    /\ last.op = "input"
    /\ Coerced(_create_tag_from_input(last.type, last.value))
    /\ UNCHANGED <<loaded, root, node_map, path_to_id, current_info,
                   current_path, value_editor_mode, inv_tabs, steps>>

CoerceNext == Coerce

CoerceSpec == CoerceInit /\ [][CoerceNext]_vars

-----------------------------------------------------------------------------
(* Vocabulary of the properties *)

\* the tags of the subtree of t
RECURSIVE TreeTags(_, _)
TreeTags(h, t) ==
    {t} \cup UNION {TreeTags(h, h[t].ents[i].ref) : i \in DOMAIN h[t].ents}

\* the tags of the tree
InTree(h, r) == IF r = 0 THEN {} ELSE TreeTags(h, r)

ListsOf(h, r) == {t \in InTree(h, r) : h[t].kind = "List"}
ResolvedLists(h, r) == {t \in ListsOf(h, r) : h[t].sub # "End"}

\* parent[key], or 0 where there is none
Child(h, parent, key) ==
    IF parent = 0 THEN 0
    ELSE IF h[parent].kind = "Compound" /\ ~key.isIdx
    THEN Get(h, parent, key.name)
    ELSE IF /\ h[parent].kind = "List" /\ key.isIdx
            /\ key.idx >= 0 /\ key.idx < Len(h[parent].ents)
    THEN h[parent].ents[key.idx + 1].ref
    ELSE 0

\* the tag reached from t along path, or 0
RECURSIVE Walk(_, _, _)
Walk(h, t, path) ==
    IF path = <<>> \/ t = 0 THEN t
    ELSE Walk(h, Child(h, t, Head(path)), Tail(path))

KeySeq(ents) == [i \in DOMAIN ents |-> ents[i].key]

\* the entries of ents other than those holding the object ref, in order
RECURSIVE Without(_, _)
Without(ents, ref) ==
    IF ents = <<>> THEN <<>>
    ELSE IF Head(ents).ref = ref THEN Without(Tail(ents), ref)
    ELSE <<Head(ents)>> \o Without(Tail(ents), ref)

\* every tag but c is as it was
OnlyChanged(c) == \A t \in DOMAIN heap : t # c => heap'[t] = heap[t]

TreeUnchanged == heap' = heap /\ root' = root

\* the step is a run of the handler op
Ran(op) == steps' # steps /\ last'.op = op

\* the selection is an entry of a Compound
EntrySelected ==
    current_info.tag # 0 /\ RenameApplies(heap, current_info)

\* the slots of a list can all be read, and are in ascending order / distinct
SlotsReadable(h, l) ==
    h[l].kind = "List" /\ \A i \in DOMAIN h[l].ents : SlotOf(h, h[l].ents[i].ref).ok

SlotAt(h, l, i) == SlotOf(h, h[l].ents[i].ref).val

SlotsAscending(h, l) ==
    \A i \in 1..(Len(h[l].ents) - 1) : SlotAt(h, l, i) <= SlotAt(h, l, i + 1)

SlotsDistinct(h, l) ==
    /\ SlotsReadable(h, l)
    /\ \A i, j \in DOMAIN h[l].ents : i # j => SlotAt(h, l, i) # SlotAt(h, l, j)

\* the last step rebuilt the addressing cache
AfterBuild ==
    \/ last.op = "open"
    \/ last.op \in {"apply", "add", "delete", "inventory"}
       /\ last.outcome \in {"Applied", "Added", "Deleted", "Saved"}

-----------------------------------------------------------------------------
(* C1 *)

\* C1: an apply that is rejected because the value text does not coerce to
\* the node's kind leaves the tree as it was, the node's key included.
C1_RejectedApplyChangesNothing ==
    [][(Ran("apply") /\ last'.outcome = "InvalidValue") => TreeUnchanged]_vars

-----------------------------------------------------------------------------
(* C2 *)

WellTyped(h, t) ==
    /\ \A i \in DOMAIN h[t].ents : h[h[t].ents[i].ref].kind = h[t].sub
    /\ h[t].sub = "End" => h[t].ents = <<>>

\* a list with a resolved subtype stays in the tree with that subtype, unless
\* the step deleted it (or what held it)
SubtypeKept(t) ==
    \/ t \in InTree(heap', root') /\ heap'[t].sub = heap[t].sub
    \/ last'.outcome = "Deleted"

\* C2: in every reachable state every list of the tree holds only elements of
\* its subtype and an untyped list is empty; and no step changes the subtype
\* of a list that has one, not even the deletion of its last element.
C2_ListsKeepTheirSubtype ==
    /\ [](\A t \in ListsOf(heap, root) : WellTyped(heap, t))
    /\ [][\A t \in ResolvedLists(heap, root) :
              /\ SubtypeKept(t)
              /\ t \in DOMAIN heap' => heap'[t].sub = heap[t].sub]_vars

\* the only element of a list was deleted, and the list kept its subtype
C2_EmptiedListStaysTyped ==
    /\ last.op = "delete" /\ last.outcome = "Deleted"
    /\ \E t \in ResolvedLists(heap, root) :
           /\ heap[t].ents = <<>>
           /\ current_info.tag = t

-----------------------------------------------------------------------------
(* C3 *)

\* C3: a run of _edit_inventory_item, whatever its outcome, keeps the slots of
\* a backing list distinct if they were distinct (a missing Slot read as 0).
C3_SlotsStayDistinct ==
    [][Ran("inventory") =>
          \A t \in DOMAIN inv_tabs :
              SlotsDistinct(heap, inv_tabs[t].list)
                  => SlotsDistinct(heap', inv_tabs[t].list)]_vars

\* an item was saved into a list that now holds several items
C3_SavedAmongOthers ==
    /\ last.op = "inventory" /\ last.outcome = "Saved"
    /\ \E t \in DOMAIN inv_tabs :
           /\ inv_tabs[t].tag_name = last.name
           /\ Len(heap[inv_tabs[t].list].ents) >= 2
           /\ SlotsDistinct(heap, inv_tabs[t].list)

-----------------------------------------------------------------------------
(* C4 *)

\* C4: right after a successful Save the backing list of the edited tab is in
\* ascending order of slot (a missing Slot read as 0).
C4_SortedAfterSave ==
    (last.op = "inventory" /\ last.outcome = "Saved") =>
        \A t \in DOMAIN inv_tabs :
            inv_tabs[t].tag_name = last.name =>
                /\ SlotsReadable(heap, inv_tabs[t].list)
                /\ SlotsAscending(heap, inv_tabs[t].list)

\* slot 3 was saved into the empty list and then slot 1 (two items made by
\* the editor, four tags each): the list holds the later item first
C4_SavedThreeThenOne ==
    /\ last.op = "inventory" /\ last.outcome = "Saved"
    /\ \E t \in DOMAIN inv_tabs :
           /\ inv_tabs[t].tag_name = last.name
           /\ heap[inv_tabs[t].list].ents
                  = <<Entry("", Len(heap) - 3), Entry("", Len(heap) - 7)>>
           /\ Len(heap) - 7 > Len(PlayerFile)
           /\ SlotAt(heap, inv_tabs[t].list, 1) = 1
           /\ SlotAt(heap, inv_tabs[t].list, 2) = 3

-----------------------------------------------------------------------------
(* C5 *)

RoundTrips(info) ==
    /\ info.path \in DOMAIN path_to_id
    /\ node_map[path_to_id[info.path]] = info
    /\ Walk(heap, root, info.path) = info.tag
    /\ info.parent # 0 => Child(heap, info.parent, info.key) = info.tag

\* C5: right after build_tree every node of the tree has exactly one entry in
\* the addressing map, and every entry's path leads back to the entry, and,
\* walked from the root, to the entry's tag, which is parent[key].
C5_AddressingRoundTrips ==
    (loaded /\ AfterBuild) =>
        /\ \A t \in InTree(heap, root) :
               Cardinality({i \in DOMAIN node_map : node_map[i].tag = t}) = 1
        /\ \A i \in DOMAIN node_map : RoundTrips(node_map[i])

-----------------------------------------------------------------------------
(* C6 *)

\* the owner holds, where the list t was, the list t2, and its other entries
\* are as they were
ReplacedBy(info, t2) ==
    /\ info.parent = 0 => root' = t2
    /\ info.parent # 0 =>
           /\ root' = root
           /\ Len(heap'[info.parent].ents) = Len(heap[info.parent].ents)
           /\ \A i \in DOMAIN heap[info.parent].ents :
                  IF heap[info.parent].ents[i].ref = info.tag
                  THEN /\ heap'[info.parent].ents[i].ref = t2
                       /\ heap'[info.parent].ents[i].key
                              = heap[info.parent].ents[i].key
                  ELSE heap'[info.parent].ents[i] = heap[info.parent].ents[i]
           /\ Child(heap', info.parent, info.key) = t2

\* the list t2 has subtype K and holds exactly one element, of kind K
FirstOf(t2, K) ==
    /\ heap'[t2].kind = "List"
    /\ heap'[t2].sub = K
    /\ Len(heap'[t2].ents) = 1
    /\ heap'[heap'[t2].ents[1].ref].kind = K

\* C6: an add_child on an empty untyped list either adds nothing and leaves
\* the tree as it was, or the list's owner holds at the same key or index a
\* list of the chosen subtype K with exactly the new element, of kind K, its
\* other entries as they were; and no step puts into a list with a resolved
\* subtype an element of another kind: a Save of an item (a Compound) into a
\* list of another subtype fails and leaves the list as it was.
C6_FirstElementFixesSubtype ==
    [][/\ (/\ Ran("add")
           /\ current_info.tag # 0
           /\ heap[current_info.tag].kind = "List"
           /\ heap[current_info.tag].sub = "End")
          => IF last'.outcome = "Added"
             THEN /\ FirstOf(Child(heap', current_info.parent, current_info.key),
                             last'.type)
                  /\ ReplacedBy(current_info,
                                Child(heap', current_info.parent,
                                      current_info.key))
             ELSE TreeUnchanged
       /\ \A t \in ResolvedLists(heap, root) :
              /\ \A i \in DOMAIN heap'[t].ents :
                     heap'[heap'[t].ents[i].ref].kind = heap[t].sub
              /\ (Ran("inventory") /\ heap[t].sub # "Compound")
                     => heap'[t] = heap[t]]_vars

\* the first element was added to an untyped list: the new list, made last,
\* is in the tree and holds the new element
C6_FirstElementAdded ==
    /\ last.op = "add" /\ last.outcome = "Added"
    /\ Len(heap) \in ListsOf(heap, root)
    /\ heap[Len(heap)].sub = last.type
    /\ heap[Len(heap)].ents = <<Entry("", Len(heap) - 1)>>
    /\ current_info.tag = Len(heap) - 1

-----------------------------------------------------------------------------
(* C7 *)

ParentKeys(h, info) == KeySeq(h[info.parent].ents)

\* C7: an apply on an entry of a Compound with a blank name is rejected with
\* EmptyName, with the name of another entry with DuplicateName, both leaving
\* the tree as it was; with the entry's own name it is rejected for neither
\* reason and leaves the keys of the compound and their order as they were.
C7_RenameRejections ==
    [][(Ran("apply") /\ EntrySelected) =>
          /\ last'.name = ""
                 => last'.outcome = "EmptyName" /\ TreeUnchanged
          /\ (/\ last'.name # ""
              /\ last'.name # current_info.key.name
              /\ HasKey(heap[current_info.parent].ents, last'.name))
                 => last'.outcome = "DuplicateName" /\ TreeUnchanged
          /\ last'.name = current_info.key.name
                 => /\ last'.outcome \notin {"EmptyName", "DuplicateName"}
                    /\ ParentKeys(heap', current_info)
                           = ParentKeys(heap, current_info)]_vars

-----------------------------------------------------------------------------
(* C8 *)

\* the value under the new key: the same object for a container, and for any
\* other tag the tag made from the value widget, of the same kind, and equal
\* to the old one where the widget was left as it showed the old value
SameValue(old, new) ==
    IF IsContainer(heap, old) THEN new = old
    ELSE /\ heap'[new].kind = heap[old].kind
         /\ last'.value = ValueShown(heap, old) => heap'[new] = heap[old]

\* C8: a successful apply that renames the entry k of a Compound to n leaves
\* the compound with as many entries, the entry n last and holding the value
\* that k held, no entry k, and before n the other entries as they were, in
\* their order.
C8_RenameMovesToEnd ==
    [][(/\ Ran("apply") /\ EntrySelected
        /\ last'.outcome = "Applied"
        /\ last'.name # current_info.key.name) =>
          /\ Len(heap'[current_info.parent].ents)
                 = Len(heap[current_info.parent].ents)
          /\ ~HasKey(heap'[current_info.parent].ents, current_info.key.name)
          /\ Front(heap'[current_info.parent].ents)
                 = DictDel(heap[current_info.parent].ents, current_info.key.name)
          /\ heap'[current_info.parent]
                 .ents[Len(heap[current_info.parent].ents)].key = last'.name
          /\ SameValue(Get(heap, current_info.parent, current_info.key.name),
                       Get(heap', current_info.parent, last'.name))]_vars

\* the first entry of a compound of several entries was renamed, with the
\* value widget left alone: it is now the last entry, with the value it had
C8_FirstEntryRenamed ==
    /\ last.op = "apply" /\ last.outcome = "Applied" /\ last.name = "x"
    /\ current_info.tag # 0
    /\ current_info.parent = root
    /\ Len(heap[root].ents) >= 3
    /\ heap[root].ents[Len(heap[root].ents)] = Entry("x", current_info.tag)
    /\ heap[current_info.tag] = NumTag("Byte", 5)
    /\ last.value = <<"5">>

-----------------------------------------------------------------------------
(* C9 *)

CompoundSelected ==
    current_info.tag # 0 /\ heap[current_info.tag].kind = "Compound"

\* the dialog's result is one add_child can use: a name, and a value text that
\* makes a tag of the chosen type
Addable(name, type, value) ==
    /\ name # ""
    /\ type \in {"Compound", "List"} \/ Strip(value) # <<>>
    /\ _create_tag_from_input(type, Strip(value)).ok

\* C9: an add_child on a Compound with the name of one of its entries is
\* rejected with DuplicateName and leaves the tree as it was, whatever the
\* value text; with a new name and a value text that makes a tag it adds one
\* entry, last, all other entries and every other tag as they were.
C9_InsertIntoCompound ==
    [][(Ran("add") /\ CompoundSelected) =>
          /\ HasKey(heap[current_info.tag].ents, last'.name)
                 => last'.outcome = "DuplicateName" /\ TreeUnchanged
          /\ (/\ ~HasKey(heap[current_info.tag].ents, last'.name)
              /\ Addable(last'.name, last'.type, last'.value))
                 => /\ last'.outcome = "Added"
                    /\ root' = root
                    /\ Len(heap') = Len(heap) + 1
                    /\ heap'[current_info.tag].ents
                           = Append(heap[current_info.tag].ents,
                                    Entry(last'.name, Len(heap')))
                    /\ OnlyChanged(current_info.tag)]_vars

\* an existing name was given together with a value text that makes no tag
C9_DuplicateWithBadValue ==
    /\ last.op = "add" /\ last.outcome = "DuplicateName"
    /\ last.type = "Byte" /\ last.value = <<"x">>
    /\ CompoundSelected
    /\ HasKey(heap[current_info.tag].ents, last.name)

-----------------------------------------------------------------------------
(* C10 *)

\* C10: a delete_node with the root selected leaves the tree as it was; a
\* confirmed one with another node selected leaves the owner without the
\* selected entry and with its other entries as they were, in their order, so
\* that in a list the elements after it move down by one.
C10_DeleteRemovesTheEntry ==
    [][(Ran("delete") /\ current_info.tag # 0) =>
          /\ current_info.parent = 0 => TreeUnchanged
          /\ (current_info.parent # 0 /\ last'.outcome # "Declined")
                 => /\ heap'[current_info.parent].ents
                           = Without(heap[current_info.parent].ents,
                                     current_info.tag)
                    /\ Len(heap'[current_info.parent].ents)
                           = Len(heap[current_info.parent].ents) - 1
                    /\ OnlyChanged(current_info.parent)
                    /\ root' = root]_vars

-----------------------------------------------------------------------------
(* The inventory claims: vocabulary *)

\* the step is Save in the dialog of a slot button
RanSave == Ran("inventory") /\ last'.type = "save"

\* the step is Delete in the dialog of a slot button
RanDelete == Ran("inventory") /\ last'.type = "delete"

\* the positions of list l whose entry has slot s
Occupants(h, l, s) ==
    {i \in DOMAIN h[l].ents : SlotOf(h, h[l].ents[i].ref).val = s}

\* the objects of list l, in order
Objects(h, l) == [i \in DOMAIN h[l].ents |-> h[l].ents[i].ref]

\* the entry of list l that the handler takes for slot s: the first one
\* with that slot (0: none)
EditedEntry(h, l, s) ==
    IF Occupants(h, l, s) = {} THEN 0
    ELSE h[l].ents[CHOOSE i \in Occupants(h, l, s) :
                       \A j \in Occupants(h, l, s) : i <= j].ref

\* the number a field of the dialog is read as
FieldInt(text) == ParseInt0(Strip(text))

-----------------------------------------------------------------------------
(* C11 *)

\* C11: a Save that is not carried out leaves the tree, the backing lists
\* and their entries included, as it was; and a Save is not carried out when
\* the count is outside 0..64 (InvalidCount, if slot and id are good), when
\* the id is blank (InvalidId, if the slot is good), or when an entry other
\* than the edited one has the new slot (SlotConflict, if the fields are
\* good).
C11_RejectedSaveChangesNothing ==
    [][RanSave =>
          /\ last'.outcome # "Saved" => TreeUnchanged
          /\ Strip(last'.value) = <<>>
                 => last'.outcome \in {"InvalidSlot", "InvalidId"}
          /\ (FieldInt(last'.count).ok /\ FieldInt(last'.count).val \notin 0..64)
                 => last'.outcome \in {"InvalidSlot", "InvalidId",
                                       "InvalidCount"}
          /\ \A t \in DOMAIN inv_tabs :
                 (/\ inv_tabs[t].tag_name = last'.name
                  /\ SlotsReadable(heap, inv_tabs[t].list)
                  /\ \E i \in Occupants(heap, inv_tabs[t].list,
                                         last'.new_slot) :
                         heap[inv_tabs[t].list].ents[i].ref
                             # EditedEntry(heap, inv_tabs[t].list, last'.slot))
                 => last'.outcome \in {"InvalidSlot", "InvalidId",
                                       "InvalidCount", "SlotConflict"}]_vars

\* a Save onto the slot of another entry was rejected
C11_SaveOntoAnotherEntry ==
    /\ last.op = "inventory" /\ last.type = "save"
    /\ last.outcome = "SlotConflict"
    /\ last.slot # last.new_slot

-----------------------------------------------------------------------------
(* C12 *)

\* the fields the item dialog writes
SavedFields == {"Slot", "id", "Count"}

\* entry e of h has the three fields as the dialog of the step gave them
HoldsSaved(h, e) ==
    /\ SavedFields \subseteq Keys(h, e)
    /\ h[Get(h, e, "Slot")] = NumTag("Byte", last'.new_slot)
    /\ h[Get(h, e, "id")] = StringTag(Strip(last'.value))
    /\ h[Get(h, e, "Count")] = NumTag("Byte", FieldInt(last'.count).val)

\* a successful Save on slot s of list l, which entry e occupied
UpdatedInPlace(l, e) ==
    /\ Len(heap'[l].ents) = Len(heap[l].ents)
    /\ Range(Objects(heap', l)) = Range(Objects(heap, l))
    /\ HoldsSaved(heap', e)
    /\ Keys(heap', e) = Keys(heap, e) \cup SavedFields
    /\ \A k \in Keys(heap, e) \ SavedFields :
           Get(heap', e, k) = Get(heap, e, k)
    /\ \A t \in DOMAIN heap : t \notin {l, e} => heap'[t] = heap[t]

\* a successful Save on a slot of list l that no entry occupied
AppendedNew(l) ==
    /\ Len(heap'[l].ents) = Len(heap[l].ents) + 1
    /\ Range(Objects(heap, l)) \subseteq Range(Objects(heap', l))
    /\ \A n \in Range(Objects(heap', l)) \ Range(Objects(heap, l)) :
           HoldsSaved(heap', n) /\ Keys(heap', n) = SavedFields
    /\ \A t \in DOMAIN heap : t # l => heap'[t] = heap[t]

\* C12: a successful Save on a slot that an entry of the backing list has
\* updates that entry in place (same length, same entries, its Slot, id and
\* Count as saved, its other fields and every other entry as they were); on
\* a slot that no entry has it adds one entry with exactly Slot, id and
\* Count.
C12_SaveUpdatesInPlace ==
    [][(RanSave /\ last'.outcome = "Saved") =>
          \A t \in DOMAIN inv_tabs :
              inv_tabs[t].tag_name = last'.name =>
                  IF EditedEntry(heap, inv_tabs[t].list, last'.slot) # 0
                  THEN UpdatedInPlace(inv_tabs[t].list,
                           EditedEntry(heap, inv_tabs[t].list, last'.slot))
                  ELSE AppendedNew(inv_tabs[t].list)]_vars

\* an entry with a field of its own was saved, and has that field still
C12_SavedEntryKeptItsField ==
    /\ last.op = "inventory" /\ last.outcome = "Saved"
    /\ \E t \in DOMAIN inv_tabs :
           \E i \in DOMAIN heap[inv_tabs[t].list].ents :
               /\ SavedFields \cup {"Damage"}
                      \subseteq Keys(heap, heap[inv_tabs[t].list].ents[i].ref)
               /\ SlotAt(heap, inv_tabs[t].list, i) = last.new_slot

-----------------------------------------------------------------------------
(* C13 *)

\* the last entry of list l with slot s (0: none)
LastWithSlot(h, l, s) ==
    IF Occupants(h, l, s) = {} THEN 0
    ELSE h[l].ents[CHOOSE i \in Occupants(h, l, s) :
                       \A j \in Occupants(h, l, s) : j <= i].ref

\* C13: when the views have just been rebuilt, the button of every slot s
\* shows the last entry of the backing list whose Slot, read as an integer
\* (0 where there is none), is s, and shows no entry where the list has
\* none with that slot; entries that share a slot are no error.
C13_ProjectionKeepsLastEntry ==
    AfterBuild =>
        \A t \in DOMAIN inv_tabs :
            /\ SlotsReadable(heap, inv_tabs[t].list)
                   => inv_tabs[t].slots # {}
            /\ \A s \in inv_tabs[t].slots :
                   inv_tabs[t].shown[s] = LastWithSlot(heap, inv_tabs[t].list, s)

\* a rebuilt view of a list in which two entries share a slot and another
\* has no Slot: the later of the two is shown, and the third at slot 0
C13_SharedSlotShown ==
    /\ AfterBuild
    /\ last.op = "inventory"
    /\ \E t \in DOMAIN inv_tabs :
           /\ \E s \in inv_tabs[t].slots :
                  /\ Cardinality(Occupants(heap, inv_tabs[t].list, s)) = 2
                  /\ inv_tabs[t].shown[s] # 0
           /\ inv_tabs[t].shown[0] # 0
           /\ "Slot" \notin Keys(heap, inv_tabs[t].shown[0])

-----------------------------------------------------------------------------
(* C14 *)

\* list l is as before the step but for its entry at position i
RemovedAt(l, i) ==
    /\ Len(heap'[l].ents) = Len(heap[l].ents) - 1
    /\ \A j \in DOMAIN heap'[l].ents :
           heap'[l].ents[j] = heap[l].ents[IF j < i THEN j ELSE j + 1]
    /\ \A t \in DOMAIN heap : t # l => heap'[t] = heap[t]
    /\ DOMAIN heap' = DOMAIN heap

-----------------------------------------------------------------------------
(* C15 *)

\* the elements of an array text: the non-blank pieces between commas
Elements(text) ==
    NonEmptyStripped(SplitComma(StripChars(Strip(text), {"[", "]"}), <<>>))

AllParse(text) ==
    \A i \in DOMAIN Elements(text) : ParseInt0(Elements(text)[i]).ok

ParsedValues(text) ==
    [i \in DOMAIN Elements(text) |-> ParseInt0(Elements(text)[i]).val]

\* some element is an integer outside [-128, 127] and every element before
\* it is an integer
OutsideByteFirst(text) ==
    \E i \in DOMAIN Elements(text) :
        /\ ParseInt0(Elements(text)[i]).ok
        /\ ParseInt0(Elements(text)[i]).val \notin -128..127
        /\ \A j \in 1..(i - 1) : ParseInt0(Elements(text)[j]).ok

\* the coercion made the array of these values
MadeArray(vals) ==
    last.outcome = "Made" /\ heap = <<ArrayTag(last.type, vals)>>

\* ByteArray fails with OutOfRange on such a text, and empty text gives the
\* empty array
ByteRangeAndEmpty ==
    /\ (last.type = "ByteArray" /\ OutsideByteFirst(last.value))
           => last.outcome = "OutOfRange"
    /\ Strip(last.value) = <<>> => MadeArray(<<>>)

-----------------------------------------------------------------------------
(* C16 *)

\* the step is a handler whose dialog was cancelled: the add-child dialog
\* or the slot dialog closed without a result, or the delete confirmation
\* answered no
RanCancelled ==
    \/ Ran("add") /\ last'.type = ""
    \/ Ran("inventory") /\ last'.type = "cancel"
    \/ Ran("delete") /\ last'.type = "no"

\* C16: when the add-child dialog or the slot dialog is cancelled, or the
\* delete confirmation is declined, the tree (both inventory lists
\* included) is exactly as before the handler started.
C16_CancelledChangesNothing ==
    [][RanCancelled => TreeUnchanged]_vars

\* the deletion of a selected entry was declined
C16_DeleteDeclined ==
    /\ last.op = "delete" /\ last.type = "no"
    /\ last.outcome = "Declined"
    /\ current_info.tag # 0 /\ current_info.parent # 0

-----------------------------------------------------------------------------
(* C17 *)

\* the slots that entries of list l have
Populated(h, l) == {SlotAt(h, l, i) : i \in DOMAIN h[l].ents}

\* the slots of the 4x9 grid, and the fixed special slots
GridSlots == 0..35
FixedSlots == {100, 101, 102, 103, 150}

StrictlyAscending(seq) ==
    \A i \in 1..(Len(seq) - 1) : seq[i] < seq[i + 1]

\* C17: when the views have just been rebuilt, the special panel of the
\* Inventory tab holds, in ascending order and once each, exactly the slots
\* outside the 4x9 grid that are fixed special slots or populated; so the
\* buttons of the tab are the grid and the panel, no slot is in both, and
\* every populated slot has its one button.
C17_PanelShowsTheRest ==
    AfterBuild =>
        \A t \in DOMAIN inv_tabs :
            (/\ inv_tabs[t].tag_name = "Inventory"
             /\ SlotsReadable(heap, inv_tabs[t].list)) =>
                /\ Range(inv_tabs[t].panel)
                       = (FixedSlots \cup Populated(heap, inv_tabs[t].list))
                             \ GridSlots
                /\ StrictlyAscending(inv_tabs[t].panel)
                /\ inv_tabs[t].slots = GridSlots \cup Range(inv_tabs[t].panel)
                /\ Range(inv_tabs[t].panel) \cap GridSlots = {}
                /\ Populated(heap, inv_tabs[t].list) \subseteq inv_tabs[t].slots

\* a rebuilt Inventory view with an entry on slot 40 and one in the grid:
\* 40 stands in the panel before the fixed slots
C17_PopulatedSlotInPanel ==
    /\ AfterBuild
    /\ last.op = "inventory"
    /\ \E t \in DOMAIN inv_tabs :
           /\ inv_tabs[t].tag_name = "Inventory"
           /\ inv_tabs[t].panel = <<40, 100, 101, 102, 103, 150>>
           /\ Populated(heap, inv_tabs[t].list) \cap GridSlots # {}

-----------------------------------------------------------------------------
(* C18 *)

\* a cached NodeInfo describes the tree: with a parent, parent[key] is its
\* tag and its path leads from the root to that tag
Described(info) ==
    info.parent # 0 =>
        /\ Child(heap, info.parent, info.key) = info.tag
        /\ Walk(heap, root, info.path) = info.tag

\* C18: whenever apply_changes, add_child, delete_node or
\* _edit_inventory_item has returned, with or without an error, every entry
\* of node_map and the current selection describe the current tree.
C18_CacheDescribesTreeOnReturn ==
    last.op \in {"apply", "add", "delete", "inventory"} =>
        /\ \A i \in DOMAIN node_map : Described(node_map[i])
        /\ current_info.tag # 0 => Described(current_info)

-----------------------------------------------------------------------------
(* C19 *)

\* the step is a Save of the clicked slot itself, with a good id and count,
\* on a button the view offers, into list l of item compounds which has no
\* entry on that slot
SavesOfferedEmptySlot(l) ==
    /\ RanSave
    /\ last'.new_slot = last'.slot
    /\ last'.slot \in GridSlots \cup FixedSlots
    /\ Strip(last'.value) # <<>>
    /\ FieldInt(last'.count).ok /\ FieldInt(last'.count).val \in 0..64
    /\ heap[l].kind = "List" /\ heap[l].sub = "Compound"
    /\ SlotsReadable(heap, l)
    /\ Occupants(heap, l, last'.slot) = {}

\* C19: a Save(slot, id, count) with non-blank id and 0 <= count <= 64 on
\* an unoccupied slot that has a button (0..35, 100..103, 150) succeeds,
\* and afterwards the list has an entry whose Slot reads back as that slot
\* and which the rebuilt view shows on that slot's button.
C19_OfferedSlotCanBeSaved ==
    [][\A t \in DOMAIN inv_tabs :
           (/\ inv_tabs[t].tag_name = last'.name
            /\ SavesOfferedEmptySlot(inv_tabs[t].list)) =>
               /\ last'.outcome = "Saved"
               /\ Occupants(heap', inv_tabs[t].list, last'.slot) # {}
               /\ \A t2 \in DOMAIN inv_tabs' :
                      inv_tabs'[t2].tag_name = last'.name =>
                          /\ last'.slot \in inv_tabs'[t2].slots
                          /\ inv_tabs'[t2].shown[last'.slot]
                                 = LastWithSlot(heap', inv_tabs'[t2].list,
                                                last'.slot)
                          /\ inv_tabs'[t2].shown[last'.slot] # 0]_vars

-----------------------------------------------------------------------------
(* C20 *)

\* C20: the entry that a click on the button of slot s deletes or saves is
\* the entry that the button shows: a Delete takes the shown entry out of
\* the list, and a Save writes the shown entry (or adds one where the
\* button shows none), also when several entries share the slot.
C20_ShownEntryIsTheEditedOne ==
    [][Ran("inventory") =>
          \A t \in DOMAIN inv_tabs :
              inv_tabs[t].tag_name = last'.name =>
                  /\ last'.outcome = "Deleted" =>
                         /\ inv_tabs[t].shown[last'.slot] # 0
                         /\ inv_tabs[t].shown[last'.slot]
                                \notin Range(Objects(heap', inv_tabs[t].list))
                  /\ last'.outcome = "Saved" =>
                         IF inv_tabs[t].shown[last'.slot] = 0
                         THEN AppendedNew(inv_tabs[t].list)
                         ELSE HoldsSaved(heap', inv_tabs[t].shown[last'.slot])]_vars

-----------------------------------------------------------------------------
(* C21 *)

\* C21: while a file is loaded, right after every rebuild of the tree view
\* the addressing map has the root path () and maps it to the root tag,
\* whatever the edits have left of the tree, a root Compound without
\* entries included.
C21_RootStaysAddressable ==
    (loaded /\ AfterBuild) =>
        /\ <<>> \in DOMAIN path_to_id
        /\ node_map[path_to_id[<<>>]].tag = root

-----------------------------------------------------------------------------
(* C22 *)

\* C22: after a confirmed delete that removed a node other than the root,
\* the rebuild selects the path of the node's parent (the node's path
\* without its last component), at every depth: the selection is that path
\* and the tag it leads to.
C22_ParentSelectedAfterDelete ==
    [][(/\ Ran("delete") /\ last'.outcome = "Deleted"
        /\ current_info.tag # 0 /\ current_info.parent # 0) =>
           /\ current_path' = SomePath(Front(current_info.path))
           /\ current_info'.tag = current_info.parent
           /\ current_info'.path = Front(current_info.path)]_vars

=============================================================================
